---- MODULE Spec2Model ----
(***************************************************************************)
(* SynapsD (src/src/index.js): the document indexing engine.               *)
(*                                                                         *)
(* State: the metadata dataset, the checksum dataset (hash2id), the two    *)
(* label bitmap indexes (bContexts, bFeatures), the emitted events, and    *)
(* the position of every asynchronous call in flight.                     *)
(*                                                                         *)
(* An async method runs synchronously up to its next `await`; one action   *)
(* of the model is one such synchronous stretch.  A Dataset.put is issued  *)
(* by the stretch that calls it and becomes visible to reads when it       *)
(* lands, which is the step that also resumes the caller.                  *)
(*                                                                         *)
(* hasDocument and listDocuments (without options) have no await: each is  *)
(* one step, and `query` holds the call and its result in the state it was *)
(* computed in; any later step of another call clears it.  `log` records   *)
(* the documents built by #parseDocument, in order.                        *)
(*                                                                         *)
(* Spec lets calls overlap; SpecSeq starts a call only when every earlier  *)
(* call has settled.                                                       *)
(*                                                                         *)
(* Label arrays are modelled as sets of labels: tickMany, untickMany, AND  *)
(* and OR do not depend on order or repetition.  Timestamps, `action` and  *)
(* `searchArray` of a record are left out: no operation reads them.        *)
(***************************************************************************)
EXTENDS Integers, Sequences, FiniteSets, TLC

\* src/src/index.js:21
INTERNAL_BITMAP_ID_MAX == 128 * 1024

\* Bounds of the model: calls started under Spec, calls that may overlap,
\* calls started under SpecSeq.
MaxCalls == 2
MaxInFlight == 2
MaxSeqCalls == 3

Procs == 1 .. MaxInFlight

ContextLabels == {"A", "B"}
FeatureLabels == {"F1", "F2"}

\* The first id of the document range that generateObjectID hands out.
FirstId == INTERNAL_BITMAP_ID_MAX + 1

\* An id of the internal range [0, INTERNAL_BITMAP_ID_MAX).
LowId == INTERNAL_BITMAP_ID_MAX - 1

\* A caller's object.  given = FALSE is the missing object; id = 0 is an
\* object without id (falsy); checksums is the Map in insertion order, a
\* sequence of <<algorithm, digest>> entries, <<>> when empty or missing;
\* embeddings is one of "none" (missing), "string" (not an array), "empty"
\* (the array []), "vec" (an array of vectors).
NoObj == [given |-> FALSE, id |-> 0, checksums |-> <<>>, embeddings |-> "none"]
Obj(id, sums, emb) == [given |-> TRUE, id |-> id, checksums |-> sums, embeddings |-> emb]

SumsAbc == << <<"sha256", "abc">> >>
SumsDef == << <<"sha256", "def">> >>
SumsAbcMd5 == << <<"sha256", "abc">>, <<"md5", "abc">> >>

InvalidObjs ==
    {NoObj, Obj(0, <<>>, "vec"), Obj(0, SumsAbc, "none"), Obj(0, SumsAbc, "string")}

\* Arguments of the calls made under SpecSeq: <<obj, contextArray, featureArray>>
\* and <<id, contextArray, featureArray>>.
SeqInserts ==
    ({Obj(0, SumsAbcMd5, "vec")}
        \X {{"A"}, {"A", "B"}} \X {{"F1"}, {"F1", "F2"}})
    \cup {<<Obj(0, SumsAbc, "empty"), {}, {}>>,
          <<Obj(LowId, SumsAbc, "vec"), {"A"}, {"F1"}>>,
          <<NoObj, {"A"}, {"F1"}>>}
SeqUpdates ==
    {<<Obj(FirstId, SumsDef, "vec"), {"B"}, {"F2"}>>,
     <<Obj(FirstId, SumsDef, "vec"), {}, {}>>,
     <<Obj(FirstId + 1, SumsDef, "vec"), {}, {}>>,
     <<Obj(0, <<>>, "vec"), {"A"}, {"F1"}>>}
SeqRemoves ==
    ({FirstId, FirstId + 1} \X {<<{"A"}, {}>>, <<{}, {"F1"}>>, <<{"A", "B"}, {"F1", "F2"}>>})
    \cup {<<LowId, <<{"A"}, {}>>>>}
SeqHas ==
    {0, FirstId, FirstId + 1} \X {<<{"A"}, {"F1"}>>, <<{}, {"F1"}>>, <<{"A", "B"}, {"F1", "F2"}>>}
SeqLists ==
    {<<{}, {"F1", "F2"}>>, <<{"A", "B"}, {}>>, <<{"A"}, {"F1"}>>,
     <<{"A", "B"}, {"F1"}>>, <<{"B"}, {"F1", "F2"}>>, <<{}, {}>>}

\* Arguments of the calls made under Spec, where calls overlap.
ConcInserts ==
    {<<Obj(0, SumsAbc, "vec"), {"A"}, {"F1"}>>,
     <<Obj(0, SumsAbcMd5, "vec"), {"A", "B"}, {"F1", "F2"}>>,
     <<Obj(LowId, SumsDef, "vec"), {"A"}, {"F1"}>>,
     <<Obj(0, SumsAbc, "string"), {"A"}, {"F1"}>>}
ConcUpdates ==
    {<<Obj(FirstId, SumsDef, "vec"), {"B"}, {"F2"}>>,
     <<NoObj, {}, {}>>}
ConcRemoves ==
    {FirstId} \X {<<{"A"}, {}>>, <<{"A"}, {"F1"}>>}
ConcHas ==
    {FirstId} \X {<<{"A"}, {"F1"}>>, <<{"A", "B"}, {"F1", "F2"}>>}
ConcLists ==
    {<<{"A"}, {"F1"}>>, <<{}, {"F1", "F2"}>>}

NoDoc == [id |-> 0, checksums |-> <<>>, embeddings |-> "none"]

VARIABLES
    metadata,   \* this.metadata: id -> document record (landed writes)
    hash2id,    \* this.hash2id: "<algo>/<checksum>" -> id (landed writes)
    bContexts,  \* this.bContexts: context label -> set of ids
    bFeatures,  \* this.bFeatures: feature label -> set of ids
    events,     \* what this.emit has emitted, in order
    calls,      \* the async calls: one slot per call that may be in flight
    ncalls,     \* number of insert/update/remove calls started
    log,        \* the documents #parseDocument has built, in order, with their labels
    query       \* the hasDocument / listDocuments call that returned at this step

vars == <<metadata, hash2id, bContexts, bFeatures, events, calls, ncalls, log, query>>

-----------------------------------------------------------------------------
(* Results of calls *)

Pending == [st |-> "pending", v |-> 0, err |-> ""]
Returned(v) == [st |-> "id", v |-> v, err |-> ""]
ReturnedFalse == [st |-> "false", v |-> 0, err |-> ""]
Threw(e) == [st |-> "threw", v |-> 0, err |-> e]

IdleCall ==
    [op |-> "none", pc |-> "idle", obj |-> NoObj, doc |-> NoDoc, id |-> 0,
     count |-> -1, ctx |-> {}, feat |-> {}, sums |-> <<>>, ret |-> Pending]

\* A settled call: its frame is gone, its result stays.
Settled(r) == [IdleCall EXCEPT !.pc = "done", !.ret = r]

NoQuery == [op |-> "none", id |-> 0, ctx |-> {}, feat |-> {}, st |-> "none",
            has |-> FALSE, list |-> <<>>]

-----------------------------------------------------------------------------
(* Datasets (storage backend) *)

DatasetHas(ds, key) == key \in DOMAIN ds

DatasetPut(ds, key, value) == (key :> value) @@ ds

\* getStats().entryCount
EntryCount(ds) == Cardinality(DOMAIN ds)

-----------------------------------------------------------------------------
(* Label bitmap index *)

\* rangeMin of the three indexes: the lowest id ever accepted.
InRange(id) == id >= INTERNAL_BITMAP_ID_MAX

tickManySync(index, labels, id) ==
    [l \in DOMAIN index |-> IF l \in labels THEN index[l] \cup {id} ELSE index[l]]

untickManySync(index, labels, id) ==
    [l \in DOMAIN index |-> IF l \in labels THEN index[l] \ {id} ELSE index[l]]

RECURSIVE Intersect(_, _)
Intersect(index, labels) ==
    LET l == CHOOSE x \in labels : TRUE
    IN  IF labels = {l} THEN index[l]
        ELSE index[l] \cap Intersect(index, labels \ {l})

\* AND([]) is the empty bitmap.
AND(index, labels) == IF labels = {} THEN {} ELSE Intersect(index, labels)

OR(index, labels) == UNION {index[l] : l \in labels}

\* Bitmap.toArray(): ascending, no duplicates.
RECURSIVE toArray(_)
toArray(S) ==
    IF S = {} THEN <<>>
    ELSE LET m == CHOOSE x \in S : \A y \in S : x <= y
         IN  <<m>> \o toArray(S \ {m})

-----------------------------------------------------------------------------
(* Utils *)

objectCount == EntryCount(metadata)

\* generateObjectID without the "+ 1" of line 329.
generateObjectID_OffByOne == INTERNAL_BITMAP_ID_MAX + objectCount

generateObjectID == INTERNAL_BITMAP_ID_MAX + objectCount + 1

\* #validateObject without the embeddings check of lines 344-346.
validateObject_NoEmbeddingsCheck(obj) ==
    IF ~obj.given THEN "Object required"
    ELSE IF obj.checksums = <<>> THEN "Object checksums array required"
    ELSE ""

\* #validateObject: the error it throws, "" when it returns true.
validateObject(obj) ==
    IF ~obj.given THEN "Object required"
    ELSE IF obj.checksums = <<>> THEN "Object checksums array required"
    ELSE IF obj.embeddings \in {"none", "string"} THEN "Object embeddings array required"
    ELSE ""

parseDocument(obj) ==
    [id |-> IF obj.id # 0 THEN obj.id ELSE generateObjectID,
     checksums |-> obj.checksums,
     embeddings |-> obj.embeddings]

\* The key of #insertChecksum / #checksumToId.
ChecksumKey(algo, checksum) == algo \o "/" \o checksum

checksumToId(algo, checksum) ==
    IF DatasetHas(hash2id, ChecksumKey(algo, checksum))
    THEN hash2id[ChecksumKey(algo, checksum)]
    ELSE 0

\* getMetadata(id) for an id that passes its checks: the record, NoDoc for null.
getMetadata(id) == IF DatasetHas(metadata, id) THEN metadata[id] ELSE NoDoc

getMetadataForChecksum(algo, checksum) ==
    LET id == checksumToId(algo, checksum)
    IN  IF id = 0 THEN NoDoc ELSE getMetadata(id)

-----------------------------------------------------------------------------
(* Queries: no await between entry and return *)

hasDocument(id, contextArray, featureArray) ==
    IF ~DatasetHas(metadata, id) THEN FALSE
    ELSE (AND(bContexts, contextArray) \cap OR(bFeatures, featureArray)) # {}

\* listDocuments without the isEmpty branch of line 254: always intersects.
listDocuments_AlwaysIntersect(contextArray, featureArray) ==
    toArray(AND(bContexts, contextArray) \cap OR(bFeatures, featureArray))

listDocuments(contextArray, featureArray) ==
    LET contextBitmap == AND(bContexts, contextArray)
        featureBitmap == OR(bFeatures, featureArray)
    IN  IF contextBitmap = {} THEN toArray(featureBitmap)
        ELSE toArray(contextBitmap \cap featureBitmap)

-----------------------------------------------------------------------------
Init ==
    /\ metadata = << >>
    /\ hash2id = << >>
    /\ bContexts = [l \in ContextLabels |-> {}]
    /\ bFeatures = [l \in FeatureLabels |-> {}]
    /\ events = << >>
    /\ calls = [p \in Procs |-> IdleCall]
    /\ ncalls = 0
    /\ log = << >>
    /\ query = NoQuery

InFlight(p) == calls[p].pc \notin {"idle", "done"}

Data == <<metadata, hash2id, bContexts, bFeatures, events>>

\* insertDocument / updateDocument up to the first await: #validateObject.
Begin(p, op, obj, contextArray, featureArray) ==
    /\ ~InFlight(p)
    /\ ncalls' = ncalls + 1
    /\ calls' = [calls EXCEPT ![p] =
          IF validateObject(obj) # ""
          THEN Settled(Threw(validateObject(obj)))
          ELSE [IdleCall EXCEPT !.op = op, !.pc = "parse", !.obj = obj,
                                !.ctx = contextArray, !.feat = featureArray]]
    /\ query' = NoQuery
    /\ UNCHANGED <<Data, log>>

InsertDocument(p, obj, contextArray, featureArray) ==
    Begin(p, "insert", obj, contextArray, featureArray)

UpdateDocument(p, obj, contextArray, featureArray) ==
    Begin(p, "update", obj, contextArray, featureArray)

\* insertDocument / updateDocument with the bitmap step of lines 154-155
\* moved before the metadata write of line 146.
Parse_TickFirst(p) ==
    /\ calls[p].pc = "parse"
    /\ calls' = [calls EXCEPT ![p].pc = "putMeta",
                              ![p].doc = parseDocument(calls[p].obj),
                              ![p].count = IF calls[p].obj.id # 0 THEN -1 ELSE objectCount,
                              ![p].obj = NoObj]
    /\ log' = Append(log, [op |-> calls[p].op, doc |-> parseDocument(calls[p].obj),
                           generated |-> calls[p].obj.id = 0,
                           ctx |-> calls[p].ctx, feat |-> calls[p].feat])
    /\ IF InRange(parseDocument(calls[p].obj).id)
       THEN /\ bContexts' = tickManySync(bContexts, calls[p].ctx, parseDocument(calls[p].obj).id)
            /\ bFeatures' = tickManySync(bFeatures, calls[p].feat, parseDocument(calls[p].obj).id)
       ELSE UNCHANGED <<bContexts, bFeatures>>
    /\ query' = NoQuery
    /\ UNCHANGED <<metadata, hash2id, events, ncalls>>

\* #parseDocument, then metadata.put is issued.  count is the local of
\* generateObjectID, -1 when obj.id is used and it is not called.
Parse(p) ==
    /\ calls[p].pc = "parse"
    /\ calls' = [calls EXCEPT ![p].pc = "putMeta",
                              ![p].doc = parseDocument(calls[p].obj),
                              ![p].count = IF calls[p].obj.id # 0 THEN -1 ELSE objectCount,
                              ![p].obj = NoObj]
    /\ log' = Append(log, [op |-> calls[p].op, doc |-> parseDocument(calls[p].obj),
                           generated |-> calls[p].obj.id = 0,
                           ctx |-> calls[p].ctx, feat |-> calls[p].feat])
    /\ query' = NoQuery
    /\ UNCHANGED <<Data, ncalls>>

\* A metadata.put that drops every other record of the store.
PutMetadata_DropsOthers(p) ==
    /\ calls[p].pc = "putMeta"
    /\ metadata' = (calls[p].doc.id :> calls[p].doc)
    /\ calls' = [calls EXCEPT ![p].pc = "putSum", ![p].sums = calls[p].doc.checksums]
    /\ query' = NoQuery
    /\ UNCHANGED <<hash2id, bContexts, bFeatures, events, ncalls, log>>

\* metadata.put lands; the call resumes and issues the first checksum put.
PutMetadata(p) ==
    /\ calls[p].pc = "putMeta"
    /\ metadata' = DatasetPut(metadata, calls[p].doc.id, calls[p].doc)
    /\ calls' = [calls EXCEPT ![p].pc = "putSum", ![p].sums = calls[p].doc.checksums]
    /\ query' = NoQuery
    /\ UNCHANGED <<hash2id, bContexts, bFeatures, events, ncalls, log>>

\* A checksum put lands; the call resumes and issues the next one, if any.
PutChecksum(p) ==
    /\ calls[p].pc = "putSum"
    /\ LET e == Head(calls[p].sums)
       IN  hash2id' = DatasetPut(hash2id, ChecksumKey(e[1], e[2]), calls[p].doc.id)
    /\ calls' = [calls EXCEPT ![p].sums = Tail(calls[p].sums),
                              ![p].pc = IF Tail(calls[p].sums) = <<>> THEN "tick" ELSE "putSum"]
    /\ query' = NoQuery
    /\ UNCHANGED <<metadata, bContexts, bFeatures, events, ncalls, log>>

\* insertDocument / updateDocument that suspends between the two tickManySync
\* calls of lines 154-155: this step ticks the contexts only.
Tick_ContextsOnly(p) ==
    /\ calls[p].pc = "tick"
    /\ IF InRange(calls[p].doc.id)
       THEN /\ bContexts' = tickManySync(bContexts, calls[p].ctx, calls[p].doc.id)
            /\ calls' = [calls EXCEPT ![p].pc = "tickFeatures"]
       ELSE /\ UNCHANGED bContexts
            /\ calls' = [calls EXCEPT ![p] = Settled(Threw("id below rangeMin"))]
    /\ query' = NoQuery
    /\ UNCHANGED <<metadata, hash2id, bFeatures, events, ncalls, log>>

\* After the last checksum put: the bitmaps are ticked, then this.fts is
\* dereferenced.  The constructor never sets this.fts (lines 93-97 are
\* commented out), so the call throws there: lines 160-166 (211-217 for
\* updateDocument) are never reached.
Tick(p) ==
    /\ calls[p].pc = "tick"
    /\ IF InRange(calls[p].doc.id)
       THEN /\ bContexts' = tickManySync(bContexts, calls[p].ctx, calls[p].doc.id)
            /\ bFeatures' = tickManySync(bFeatures, calls[p].feat, calls[p].doc.id)
            /\ calls' = [calls EXCEPT ![p] = Settled(Threw("TypeError: this.fts is undefined"))]
       ELSE /\ UNCHANGED <<bContexts, bFeatures>>
            /\ calls' = [calls EXCEPT ![p] = Settled(Threw("id below rangeMin"))]
    /\ query' = NoQuery
    /\ UNCHANGED <<metadata, hash2id, events, ncalls, log>>

\* removeDocument without the check of lines 222-226: it goes on to untick
\* whether or not metadata.get(id) found a record.
RemoveDocument_NoLookup(p, id, contextArray, featureArray) ==
    /\ ~InFlight(p)
    /\ ncalls' = ncalls + 1
    /\ calls' = [calls EXCEPT ![p] =
          [IdleCall EXCEPT !.op = "remove", !.pc = "untick", !.id = id,
                           !.doc = [getMetadata(id) EXCEPT !.id = id],
                           !.ctx = contextArray, !.feat = featureArray]]
    /\ query' = NoQuery
    /\ UNCHANGED <<Data, log>>

\* removeDocument up to its await: metadata.get(id).
RemoveDocument(p, id, contextArray, featureArray) ==
    /\ ~InFlight(p)
    /\ ncalls' = ncalls + 1
    /\ calls' = [calls EXCEPT ![p] =
          IF ~DatasetHas(metadata, id)
          THEN Settled(ReturnedFalse)
          ELSE [IdleCall EXCEPT !.op = "remove", !.pc = "untick", !.id = id,
                                !.doc = metadata[id],
                                !.ctx = contextArray, !.feat = featureArray]]
    /\ query' = NoQuery
    /\ UNCHANGED <<Data, log>>

\* removeDocument that also deletes the metadata record of id.
Untick_DeletesRecord(p) ==
    /\ calls[p].pc = "untick"
    /\ bContexts' = untickManySync(bContexts, calls[p].ctx, calls[p].id)
    /\ bFeatures' = untickManySync(bFeatures, calls[p].feat, calls[p].id)
    /\ metadata' = [k \in DOMAIN metadata \ {calls[p].id} |-> metadata[k]]
    /\ events' = Append(events, [type |-> "index:remove", id |-> calls[p].id,
                                 contextArray |-> calls[p].ctx,
                                 featureArray |-> calls[p].feat])
    /\ calls' = [calls EXCEPT ![p] = Settled(Returned(calls[p].doc.id))]
    /\ query' = NoQuery
    /\ UNCHANGED <<hash2id, ncalls, log>>

\* removeDocument that ignores its label arrays and unticks every label.
Untick_AllLabels(p) ==
    /\ calls[p].pc = "untick"
    /\ bContexts' = untickManySync(bContexts, ContextLabels, calls[p].id)
    /\ bFeatures' = untickManySync(bFeatures, FeatureLabels, calls[p].id)
    /\ events' = Append(events, [type |-> "index:remove", id |-> calls[p].id,
                                 contextArray |-> calls[p].ctx,
                                 featureArray |-> calls[p].feat])
    /\ calls' = [calls EXCEPT ![p] = Settled(Returned(calls[p].doc.id))]
    /\ query' = NoQuery
    /\ UNCHANGED <<metadata, hash2id, ncalls, log>>

\* removeDocument after the await: untick, emit, return document.id.
Untick(p) ==
    /\ calls[p].pc = "untick"
    /\ LET c == calls[p]
           rejected == ~InRange(c.id) /\ (c.ctx # {} \/ c.feat # {})
       IN  IF rejected
           THEN /\ UNCHANGED <<bContexts, bFeatures, events>>
                /\ calls' = [calls EXCEPT ![p] = Settled(Threw("id below rangeMin"))]
           ELSE /\ bContexts' = untickManySync(bContexts, c.ctx, c.id)
                /\ bFeatures' = untickManySync(bFeatures, c.feat, c.id)
                /\ events' = Append(events, [type |-> "index:remove", id |-> c.id,
                                             contextArray |-> c.ctx, featureArray |-> c.feat])
                /\ calls' = [calls EXCEPT ![p] = Settled(Returned(c.doc.id))]
    /\ query' = NoQuery
    /\ UNCHANGED <<metadata, hash2id, ncalls, log>>

HasDocument(id, contextArray, featureArray) ==
    /\ query' = [op |-> "has", id |-> id, ctx |-> contextArray, feat |-> featureArray,
                 st |-> IF id = 0 THEN "threw" ELSE "returned",
                 has |-> IF id = 0 THEN FALSE ELSE hasDocument(id, contextArray, featureArray),
                 list |-> <<>>]
    /\ UNCHANGED <<Data, calls, ncalls, log>>

ListDocuments(contextArray, featureArray) ==
    /\ query' = [op |-> "list", id |-> 0, ctx |-> contextArray, feat |-> featureArray,
                 st |-> "returned", has |-> FALSE,
                 list |-> listDocuments(contextArray, featureArray)]
    /\ UNCHANGED <<Data, calls, ncalls, log>>

\* Calls may overlap.
Next ==
    \/ \E p \in Procs, a \in ConcInserts :
          ncalls < MaxCalls /\ InsertDocument(p, a[1], a[2], a[3])
    \/ \E p \in Procs, a \in ConcUpdates :
          ncalls < MaxCalls /\ UpdateDocument(p, a[1], a[2], a[3])
    \/ \E p \in Procs, a \in ConcRemoves :
          ncalls < MaxCalls /\ RemoveDocument(p, a[1], a[2][1], a[2][2])
    \/ \E p \in Procs : Parse(p)
    \/ \E p \in Procs : PutMetadata(p)
    \/ \E p \in Procs : PutChecksum(p)
    \/ \E p \in Procs : Tick(p)
    \/ \E p \in Procs : Untick(p)
    \/ \E a \in ConcHas : HasDocument(a[1], a[2][1], a[2][2])
    \/ \E a \in ConcLists : ListDocuments(a[1], a[2])

Spec == Init /\ [][Next]_vars

Quiescent == \A p \in Procs : ~InFlight(p)

\* Every call completes before the next one starts.
NextSeq ==
    \/ \E a \in SeqInserts :
          Quiescent /\ ncalls < MaxSeqCalls /\ InsertDocument(1, a[1], a[2], a[3])
    \/ \E a \in SeqUpdates :
          Quiescent /\ ncalls < MaxSeqCalls /\ UpdateDocument(1, a[1], a[2], a[3])
    \/ \E a \in SeqRemoves :
          Quiescent /\ ncalls < MaxSeqCalls /\ RemoveDocument(1, a[1], a[2][1], a[2][2])
    \/ \E p \in Procs : Parse(p)
    \/ \E p \in Procs : PutMetadata(p)
    \/ \E p \in Procs : PutChecksum(p)
    \/ \E p \in Procs : Tick(p)
    \/ \E p \in Procs : Untick(p)
    \/ \E a \in SeqHas : Quiescent /\ HasDocument(a[1], a[2][1], a[2][2])
    \/ \E a \in SeqLists : Quiescent /\ ListDocuments(a[1], a[2])

SpecSeq == Init /\ [][NextSeq]_vars

-----------------------------------------------------------------------------
(* Properties *)

Range(seq) == {seq[i] : i \in DOMAIN seq}

\* The call that built log[i] has completed (under SpecSeq).
Completed(i) == i < Len(log) \/ Quiescent

\* C1: under SpecSeq (every insertDocument call completes before the next
\* call starts), the ids given to the inserted documents, which are the ids
\* line 166 returns, are pairwise distinct and each is >= R + 1.
C1_SequentialIdsDistinct ==
    \A i \in DOMAIN log :
        log[i].op = "insert" =>
            /\ log[i].doc.id >= INTERNAL_BITMAP_ID_MAX + 1
            /\ \A j \in DOMAIN log :
                  (j # i /\ log[j].op = "insert") => log[j].doc.id # log[i].doc.id

\* C2: an insertDocument call whose object has no id, parsing while another
\* insertDocument call that read the same entry count still waits for its
\* metadata write, is given the same id R + count + 1; and a metadata write
\* under an id that already has a record replaces that record.
C2_OverlappingInsertsShareId ==
    [][\A q \in Procs :
          /\ (calls[q].pc = "parse" /\ calls'[q].pc = "putMeta"
                /\ calls[q].op = "insert" /\ calls[q].obj.id = 0) =>
                /\ calls'[q].doc.id
                      = INTERNAL_BITMAP_ID_MAX + Cardinality(DOMAIN metadata) + 1
                /\ \A p \in Procs \ {q} :
                      (calls[p].op = "insert" /\ calls[p].pc = "putMeta"
                         /\ calls[p].count = Cardinality(DOMAIN metadata))
                      => calls'[q].doc.id = calls[p].doc.id
          /\ (calls[q].pc = "putMeta" /\ calls'[q].pc = "putSum"
                /\ calls[q].doc.id \in DOMAIN metadata) =>
                /\ metadata'[calls[q].doc.id] = calls[q].doc
                /\ DOMAIN metadata' = DOMAIN metadata
      ]_vars

\* C2 happens: two overlapping insertDocument calls that read the same count
\* hold the same id, both metadata writes have landed, and the record under
\* that id is the second call's, not the first's.
C2_Witness ==
    \E p, q \in Procs :
        /\ p # q
        /\ calls[p].op = "insert" /\ calls[q].op = "insert"
        /\ calls[p].count >= 0 /\ calls[p].count = calls[q].count
        /\ calls[p].doc.id = calls[q].doc.id
        /\ calls[p].doc.id = INTERNAL_BITMAP_ID_MAX + calls[p].count + 1
        /\ calls[p].pc \in {"putSum", "tick"} /\ calls[q].pc \in {"putSum", "tick"}
        /\ calls[p].doc # calls[q].doc
        /\ metadata[calls[p].doc.id] = calls[q].doc

\* C3: every key of the metadata store and every id in a context or feature
\* bitmap is >= R.
C3_NoIdBelowR ==
    /\ \A k \in DOMAIN metadata : k >= INTERNAL_BITMAP_ID_MAX
    /\ \A l \in ContextLabels : \A i \in bContexts[l] : i >= INTERNAL_BITMAP_ID_MAX
    /\ \A l \in FeatureLabels : \A i \in bFeatures[l] : i >= INTERNAL_BITMAP_ID_MAX

\* C4: hasDocument(id, contexts, features), for an id with a metadata record,
\* returns true if and only if id is in AND(contexts) /\ OR(features).
C4_HasIffMember ==
    (query.op = "has" /\ query.st = "returned" /\ query.id \in DOMAIN metadata) =>
        (query.has <=>
            query.id \in (AND(bContexts, query.ctx) \cap OR(bFeatures, query.feat)))

\* C5: every id listDocuments(C, F) returns for a non-empty C is in the
\* bitmap of every label of C.
C5_ContextsConjunctive ==
    (query.op = "list" /\ query.ctx # {}) =>
        \A i \in Range(query.list) : \A l \in query.ctx : i \in bContexts[l]

\* What C6 says listDocuments(C, F) returns: ascending, without duplicates,
\* OR(F) when AND(C) is empty and AND(C) /\ OR(F) otherwise.
ListIsAsSpecified(C, F, res) ==
    /\ \A i, j \in DOMAIN res : i < j => res[i] < res[j]
    /\ Range(res) = IF AND(bContexts, C) = {}
                    THEN OR(bFeatures, F)
                    ELSE AND(bContexts, C) \cap OR(bFeatures, F)

\* C6: listDocuments(contexts, features) returns, in ascending id order
\* without duplicates, exactly OR(features) when AND(contexts) is empty and
\* exactly AND(contexts) /\ OR(features) otherwise; with contexts = [], a
\* document ticked into F1 or F2 is in listDocuments([], [F1, F2]).
C6_ListResult ==
    /\ query.op = "list" => ListIsAsSpecified(query.ctx, query.feat, query.list)
    /\ \A C \in SUBSET ContextLabels, F \in SUBSET FeatureLabels :
          ListIsAsSpecified(C, F, listDocuments(C, F))
    /\ (query.op = "list" /\ query.ctx = {} /\ query.feat = {"F1", "F2"}) =>
          (bFeatures["F1"] \cup bFeatures["F2"]) \subseteq Range(query.list)

\* C6 happens: listDocuments([], [F1, F2]) returned two ids, one of them a
\* document ticked into F1 only.
C6_Witness ==
    /\ query.op = "list" /\ query.ctx = {} /\ query.feat = {"F1", "F2"}
    /\ Len(query.list) = 2
    /\ \E d \in Range(query.list) : d \in bFeatures["F1"] /\ d \notin bFeatures["F2"]

\* C7: listDocuments([A, B], []) includes every document ticked into both A
\* and B and excludes every document ticked into A only.
C7_ContextAndNoFeatures ==
    (query.op = "list" /\ query.ctx = {"A", "B"} /\ query.feat = {}) =>
        /\ (bContexts["A"] \cap bContexts["B"]) \subseteq Range(query.list)
        /\ \A d \in bContexts["A"] \ bContexts["B"] : d \notin Range(query.list)

\* C8: once an insertDocument of a document with checksum (algo, digest) has
\* completed with id X, and while no later insert or update carries the same
\* (algo, digest), getMetadataForChecksum(algo, digest) returns the record
\* getMetadata(X) returns, and it is the record that was inserted.
C8_ChecksumResolves ==
    \A i \in DOMAIN log :
        (log[i].op = "insert" /\ Completed(i)) =>
            \A e \in Range(log[i].doc.checksums) :
                (\A j \in DOMAIN log : j > i => e \notin Range(log[j].doc.checksums)) =>
                    /\ getMetadataForChecksum(e[1], e[2]) = getMetadata(log[i].doc.id)
                    /\ getMetadataForChecksum(e[1], e[2]) = log[i].doc

\* C9: removeDocument(id, C, F) on an existing document removes id from
\* exactly the bitmaps of the context labels in C and the feature labels in
\* F: every other label, and every other id in every label, is as before.
C9_PartialRemoval ==
    [][\A p \in Procs :
          (calls[p].pc = "untick" /\ calls'[p].pc = "done") =>
              /\ \A l \in ContextLabels :
                    bContexts'[l] = IF l \in calls[p].ctx
                                    THEN bContexts[l] \ {calls[p].id}
                                    ELSE bContexts[l]
              /\ \A l \in FeatureLabels :
                    bFeatures'[l] = IF l \in calls[p].feat
                                    THEN bFeatures[l] \ {calls[p].id}
                                    ELSE bFeatures[l]
      ]_vars

\* C9 happens: removeDocument(id, [A], []) has returned id for a document
\* that was ticked into A and B; id is out of A and still in B.
C9_Witness ==
    /\ events # << >>
    /\ LET e == events[Len(events)]
       IN  /\ e.contextArray = {"A"} /\ e.featureArray = {}
           /\ \E p \in Procs : calls[p].pc = "done" /\ calls[p].ret = Returned(e.id)
           /\ e.id \notin bContexts["A"]
           /\ e.id \in bContexts["B"]
           /\ e.id \notin AND(bContexts, {"A"})
           /\ e.id \in AND(bContexts, {"B"})

\* C10: with no removeDocument so far, hasDocument(id, C, F) is true for a
\* document inserted with non-empty C and F; and once removeDocument(id, C, [])
\* has returned id, and while id is in no bitmap of C, hasDocument(id, C, F)
\* is false.
C10_InsertHasRemoveHas ==
    (query.op = "has" /\ query.st = "returned") =>
        /\ (/\ events = << >>
            /\ query.ctx # {} /\ query.feat # {}
            /\ \E i \in DOMAIN log :
                  /\ log[i].op = "insert" /\ Completed(i)
                  /\ log[i].doc.id = query.id
                  /\ log[i].ctx = query.ctx /\ log[i].feat = query.feat)
           => query.has
        /\ (/\ query.id \in DOMAIN metadata
            /\ query.ctx # {}
            /\ \E n \in DOMAIN events :
                  /\ events[n].id = query.id
                  /\ events[n].contextArray = query.ctx
                  /\ events[n].featureArray = {}
            /\ \A l \in query.ctx : query.id \notin bContexts[l])
           => ~query.has

\* The errors #validateObject throws.
ValidationErrors ==
    {"Object required", "Object checksums array required",
     "Object embeddings array required"}

\* C11: an insertDocument or updateDocument call whose object is missing,
\* has empty checksums, or has embeddings that are not a sequence fails with
\* a validation error in the step that starts it, and that step leaves the
\* metadata store, the checksum index, every bitmap and the emitted events
\* unchanged; no such object ever gets past validation.
C11_ValidationFailureNoWrite ==
    [][/\ \A o \in InvalidObjs : validateObject(o) \in ValidationErrors
       /\ \A p \in Procs :
             /\ (calls'[p].pc = "parse" /\ calls[p].pc # "parse") =>
                   /\ calls'[p].obj.given
                   /\ calls'[p].obj.checksums # <<>>
                   /\ calls'[p].obj.embeddings \in {"empty", "vec"}
             /\ (/\ ~InFlight(p) /\ ncalls' = ncalls + 1
                 /\ calls'[p].pc = "done"
                 /\ calls'[p].ret.st = "threw"
                 /\ calls'[p].ret.err \in ValidationErrors) =>
                   /\ metadata' = metadata /\ hash2id' = hash2id
                   /\ bContexts' = bContexts /\ bFeatures' = bFeatures
                   /\ events' = events
      ]_vars

\* C11 happens: a call has failed validation while the store already holds
\* a record written by another call.
C11_Witness ==
    /\ metadata # << >>
    /\ \E p \in Procs :
          calls[p].pc = "done"
          /\ calls[p].ret \in {Threw(e) : e \in ValidationErrors}

\* C12: every record of the metadata store has a non-empty checksums map and
\* a non-empty embeddings array.
C12_RecordsPassValidation ==
    \A k \in DOMAIN metadata :
        /\ metadata[k].checksums # <<>>
        /\ metadata[k].embeddings = "vec"

\* C13: the last step of an insertDocument call that passed validation and
\* whose id the bitmap indexes accept emits index:insert with the document
\* id, once, after the metadata, checksum and bitmap writes, and the call
\* returns that id.
C13_InsertEmitsAndReturns ==
    [][\A p \in Procs :
          (/\ calls[p].op = "insert" /\ calls[p].pc = "tick"
           /\ calls'[p].pc = "done"
           /\ InRange(calls[p].doc.id)) =>
              /\ calls'[p].ret = Returned(calls[p].doc.id)
              /\ Len(events') = Len(events) + 1
              /\ events'[Len(events')].type = "index:insert"
              /\ events'[Len(events')].id = calls[p].doc.id
      ]_vars

\* C14: removeDocument(id, C, F) for an id without a metadata record returns
\* false, not an error, in the step that starts it; that step changes no
\* bitmap, no store and emits nothing, and only a call whose id has a record
\* goes on to untick and emit index:remove.
C14_RemoveAbsentReturnsFalse ==
    [][\A p \in Procs :
          /\ (calls'[p].pc = "untick" /\ calls[p].pc # "untick") =>
                calls'[p].id \in DOMAIN metadata
          /\ (/\ ~InFlight(p) /\ ncalls' = ncalls + 1
              /\ calls'[p].pc = "done"
              /\ calls'[p].ret = ReturnedFalse) =>
                /\ bContexts' = bContexts /\ bFeatures' = bFeatures
                /\ events' = events
                /\ metadata' = metadata /\ hash2id' = hash2id
          /\ (Len(events') > Len(events) /\ events'[Len(events')].type = "index:remove") =>
                events'[Len(events')].id \in DOMAIN metadata
      ]_vars

\* C14 happens: removeDocument has returned false for an id without a record
\* while another document is ticked into context A and feature F1 and no
\* index:remove has been emitted.
C14_Witness ==
    /\ \E p \in Procs : calls[p].pc = "done" /\ calls[p].ret = ReturnedFalse
    /\ bContexts["A"] # {} /\ bFeatures["F1"] # {}
    /\ FirstId + 1 \notin DOMAIN metadata
    /\ events = << >>

\* C15: neither step of a removeDocument(id, C, F) call on an existing id
\* changes the metadata store or the checksum index: the record of id, every
\* checksum entry and objectCount() are what they were before, so
\* getMetadata(id) and getMetadataForChecksum still return what they did.
C15_RemoveOnlyUnindexes ==
    [][\A p \in Procs :
          ((calls'[p].pc = "untick" /\ calls[p].pc # "untick")
             \/ (calls[p].pc = "untick" /\ calls'[p].pc = "done")) =>
              /\ calls'[p].pc = "untick" => calls'[p].id \in DOMAIN metadata'
              /\ calls[p].pc = "untick" =>
                    /\ calls[p].id \in DOMAIN metadata'
                    /\ metadata'[calls[p].id] = metadata[calls[p].id]
              /\ DOMAIN metadata' = DOMAIN metadata
              /\ \A k \in DOMAIN metadata : metadata'[k] = metadata[k]
              /\ DOMAIN hash2id' = DOMAIN hash2id
              /\ \A k \in DOMAIN hash2id : hash2id'[k] = hash2id[k]
              /\ Cardinality(DOMAIN metadata') = Cardinality(DOMAIN metadata)
      ]_vars

\* C15 happens: removeDocument has returned the id of a document that was
\* inserted with labels; the id is in no bitmap any more, and its record is
\* still returned by getMetadata and by getMetadataForChecksum.
C15_Witness ==
    /\ events # << >>
    /\ LET e == events[Len(events)]
       IN  /\ e.type = "index:remove"
           /\ \E p \in Procs : calls[p].pc = "done" /\ calls[p].ret = Returned(e.id)
           /\ \E i \in DOMAIN log :
                 log[i].doc.id = e.id /\ log[i].ctx # {} /\ log[i].feat # {}
           /\ \A l \in ContextLabels : e.id \notin bContexts[l]
           /\ \A l \in FeatureLabels : e.id \notin bFeatures[l]
           /\ getMetadata(e.id) # NoDoc
           /\ getMetadata(e.id).id = e.id
           /\ getMetadataForChecksum("sha256", "abc") = getMetadata(e.id)
           /\ objectCount = 1

\* C16: once two insertDocument calls of objects without id that share a
\* checksum (algo, digest) have completed one after the other, the two
\* documents have distinct ids, both records are in the metadata store, and
\* getMetadataForChecksum(algo, digest) returns the record of the second.
C16_ChecksumLastWriteWins ==
    \A j \in DOMAIN log :
        (/\ j = Len(log) /\ j > 1 /\ Quiescent
         /\ log[j - 1].op = "insert" /\ log[j - 1].generated
         /\ log[j].op = "insert" /\ log[j].generated) =>
            \A e \in Range(log[j - 1].doc.checksums) \cap Range(log[j].doc.checksums) :
                /\ log[j - 1].doc.id # log[j].doc.id
                /\ getMetadata(log[j - 1].doc.id) = log[j - 1].doc
                /\ getMetadata(log[j].doc.id) = log[j].doc
                /\ getMetadataForChecksum(e[1], e[2]) = log[j].doc

\* The ids in the bitmaps of the two label indexes.
IndexedIds ==
    UNION {bContexts[l] : l \in ContextLabels} \cup UNION {bFeatures[l] : l \in FeatureLabels}

\* C17: insertDocument and updateDocument write the metadata record, then
\* the checksum entries, then the bitmaps.  So in every state, also while
\* calls are in flight or have failed, every id in a context or feature
\* bitmap and every id in the checksum index has a metadata record; a call
\* about to write checksums has its record in the store, a call about to
\* tick has its record and all its checksum entries there; and a document
\* whose call failed at the bitmap step has its record and checksum entries
\* and is in no bitmap.
C17_MetadataBeforeChecksumBeforeBitmaps ==
    /\ \A i \in IndexedIds : DatasetHas(metadata, i)
    /\ \A k \in DOMAIN hash2id : DatasetHas(metadata, hash2id[k])
    /\ \A p \in Procs :
          /\ calls[p].pc \in {"putSum", "tick"} => DatasetHas(metadata, calls[p].doc.id)
          /\ calls[p].pc = "putSum" =>
                \A n \in 1 .. (Len(calls[p].doc.checksums) - Len(calls[p].sums)) :
                    DatasetHas(hash2id, ChecksumKey(calls[p].doc.checksums[n][1],
                                                    calls[p].doc.checksums[n][2]))
          /\ calls[p].pc = "tick" =>
                \A e \in Range(calls[p].doc.checksums) :
                    DatasetHas(hash2id, ChecksumKey(e[1], e[2]))
    /\ \A i \in DOMAIN log :
          (/\ ~InRange(log[i].doc.id)
           /\ \A p \in Procs : InFlight(p) => calls[p].doc.id # log[i].doc.id) =>
              /\ getMetadata(log[i].doc.id) # NoDoc
              /\ \A e \in Range(log[i].doc.checksums) : checksumToId(e[1], e[2]) # 0
              /\ log[i].doc.id \notin IndexedIds

\* C17 happens: an insertDocument call has failed at the bitmap step; its
\* document is returned by getMetadata and resolved by its checksum and is
\* in no bitmap, while another call's id is in the checksum index and in a
\* bitmap.
C17_Witness ==
    /\ \E p \in Procs : calls[p].pc = "done" /\ calls[p].ret = Threw("id below rangeMin")
    /\ getMetadata(LowId).id = LowId
    /\ checksumToId("sha256", "def") = LowId
    /\ LowId \notin IndexedIds
    /\ IndexedIds # {}
    /\ \E k \in DOMAIN hash2id : hash2id[k] \in IndexedIds

\* C18: the bitmap step of a call is one step.  Every step that changes a
\* context or feature bitmap is the whole tick of one insertDocument or
\* updateDocument call (its id into all its context labels and all its
\* feature labels) or the whole untick of one removeDocument call; and a
\* hasDocument or listDocuments call is one step that changes no bitmap and
\* computes its result from the bitmaps of a single state.  So no query sees
\* an id ticked into (unticked from) a call's contexts but not its features.
C18_BitmapStepAtomic ==
    [][/\ (bContexts' # bContexts \/ bFeatures' # bFeatures) =>
             \E p \in Procs :
                 \/ /\ calls[p].pc = "tick" /\ calls'[p].pc = "done"
                    /\ bContexts' = tickManySync(bContexts, calls[p].ctx, calls[p].doc.id)
                    /\ bFeatures' = tickManySync(bFeatures, calls[p].feat, calls[p].doc.id)
                    /\ \A l \in calls[p].ctx : calls[p].doc.id \in bContexts'[l]
                    /\ \A l \in calls[p].feat : calls[p].doc.id \in bFeatures'[l]
                 \/ /\ calls[p].pc = "untick" /\ calls'[p].pc = "done"
                    /\ bContexts' = untickManySync(bContexts, calls[p].ctx, calls[p].id)
                    /\ bFeatures' = untickManySync(bFeatures, calls[p].feat, calls[p].id)
                    /\ \A l \in calls[p].ctx : calls[p].id \notin bContexts'[l]
                    /\ \A l \in calls[p].feat : calls[p].id \notin bFeatures'[l]
       /\ query'.op # "none" =>
             /\ bContexts' = bContexts /\ bFeatures' = bFeatures
             /\ query'.op = "has" /\ query'.st = "returned" =>
                   query'.has = hasDocument(query'.id, query'.ctx, query'.feat)
             /\ query'.op = "list" =>
                   query'.list = listDocuments(query'.ctx, query'.feat)
      ]_vars

\* C18 happens: listDocuments([A], [F1]) has returned the id of a document
\* whose call has ticked it into A and F1, while another call, which has
\* written its record and checksums, has not reached its bitmap step and
\* none of its labels holds its id.
C18_Witness ==
    /\ query.op = "list" /\ query.ctx = {"A"} /\ query.feat = {"F1"}
    /\ query.list # << >>
    /\ \E p \in Procs :
          /\ calls[p].pc = "tick"
          /\ calls[p].ctx # {} /\ calls[p].feat # {}
          /\ \A l \in calls[p].ctx : calls[p].doc.id \notin bContexts[l]
          /\ \A l \in calls[p].feat : calls[p].doc.id \notin bFeatures[l]

\* C19: an updateDocument call (the last call started, every earlier call
\* having completed) for an object whose id is that of a document written by
\* an earlier call replaces the record stored under that id without changing
\* the set of stored ids or objectCount(), and its last step ticks the id
\* into the given labels, emits index:update with the id and returns the id.
C19_UpdateInPlace ==
    [][\A p \in Procs :
          (/\ calls[p].op = "update"
           /\ InRange(calls[p].doc.id)
           /\ \E i \in 1 .. (Len(log) - 1) : log[i].doc.id = calls[p].doc.id
           /\ DatasetHas(metadata, calls[p].doc.id)) =>
              /\ (calls[p].pc = "putMeta" /\ calls'[p].pc = "putSum") =>
                    /\ metadata'[calls[p].doc.id] = calls[p].doc
                    /\ DOMAIN metadata' = DOMAIN metadata
                    /\ Cardinality(DOMAIN metadata') = Cardinality(DOMAIN metadata)
              /\ (calls[p].pc = "tick" /\ calls'[p].pc = "done") =>
                    /\ \A l \in calls[p].ctx : calls[p].doc.id \in bContexts'[l]
                    /\ \A l \in calls[p].feat : calls[p].doc.id \in bFeatures'[l]
                    /\ DOMAIN metadata' = DOMAIN metadata
                    /\ calls'[p].ret = Returned(calls[p].doc.id)
                    /\ Len(events') = Len(events) + 1
                    /\ events'[Len(events')].type = "index:update"
                    /\ events'[Len(events')].id = calls[p].doc.id
      ]_vars

\* C20: no step of any call, in any interleaving, removes a metadata record:
\* objectCount() never decreases, and neither does the id generateObjectID()
\* would return.
C20_ObjectCountNeverDecreases ==
    [][/\ DOMAIN metadata \subseteq DOMAIN metadata'
       /\ objectCount' >= objectCount
       /\ generateObjectID' >= generateObjectID
      ]_vars

\* C20 happens: a removeDocument call has emitted index:remove for a
\* document while the call that wrote it is still in flight; the record is
\* in the store and generateObjectID() would return R + 2.
C20_Witness ==
    /\ objectCount = 1
    /\ generateObjectID = INTERNAL_BITMAP_ID_MAX + 2
    /\ \E p \in Procs : InFlight(p)
    /\ events # << >>
    /\ events[Len(events)].type = "index:remove"
    /\ events[Len(events)].id \in DOMAIN metadata

====
